---- MODULE Spec2Model ----
(***************************************************************************)
(* Model of TurtleEx.star (src/turtle/star_polygon.py): the resolution of  *)
(* (radius, vertices, step, edgelen) into angles and lengths, the sequence *)
(* of turtle commands the method issues, and the turtle state it leaves.   *)
(*                                                                         *)
(* Exact arithmetic replaces floating point:                               *)
(*  - an angle is a record [t, k]: t ticks plus k times rho0, where a half *)
(*    turn (math.pi) is Pi ticks and rho0 is the one irrational angle a    *)
(*    call can compute, acos(|s| / (2u));                                  *)
(*  - a length is a record [c, a, b] standing for c * sin(a) / sin(b);     *)
(*  - a position is a formal sum of unit vectors, so that a chord of the   *)
(*    circumscribed circle moves the turtle from one vertex to another     *)
(*    exactly.                                                             *)
(***************************************************************************)
EXTENDS Integers, Sequences, FiniteSets, TLC

MaxN == 6
MinN == 5
BufSize == 1
MaxHeld == 1
MaxPath == 2

Vertices == MinN..MaxN
Radii == {-250, 0, 250}
Steps == (-MaxN)..MaxN
EdgeLens == {0, 100, 125, 200}

None == <<>>
Some(x) == <<x>>
IsNone(o) == Len(o) = 0
Val(o) == o[1]

Abs(x) == IF x < 0 THEN -x ELSE x
Max(a, b) == IF a >= b THEN a ELSE b
Min(a, b) == IF a <= b THEN a ELSE b

RECURSIVE GCD(_, _)
GCD(a, b) == IF b = 0 THEN Abs(a) ELSE GCD(b, a % b)

RECURSIVE LcmUpTo(_)
LcmUpTo(k) == IF k <= 1 THEN 1
              ELSE LET l == LcmUpTo(k - 1) IN (l * k) \div GCD(l, k)

\* circle(radius): steps = 1 + int(min(11 + abs(radius) / 6.0, 59.0) * frac)
\* for a full circle (frac = 1)
CircleSteps(radius) == 1 + Min((66 + Abs(radius)) \div 6, 59)

\* math.pi and pi2 = 2 * math.pi in ticks; every angle built from pi / n,
\* n <= MaxN, and its half is a whole number of ticks, and so is the half
\* step pi / 53 of circle(250)
pi == 2 * LcmUpTo(MaxN) * CircleSteps(250)
pi2 == pi * 2

(***************************************************************************)
(* Angles.                                                                 *)
(***************************************************************************)
Ang(t, k) == [t |-> t, k |-> k]
AZero == Ang(0, 0)
AAdd(x, y) == Ang(x.t + y.t, x.k + y.k)
ASub(x, y) == Ang(x.t - y.t, x.k - y.k)
ANeg(x) == Ang(-x.t, -x.k)
AHalf(x) == Ang(x.t \div 2, x.k \div 2)
ADouble(x) == Ang(2 * x.t, 2 * x.k)
\* the same direction: equal modulo a full turn
ANorm(x) == Ang(x.t % pi2, x.k)

(***************************************************************************)
(* math.sin, exactly: the sign of sin(x) and the angle of (0, pi/2] with   *)
(* the same absolute sine.                                                 *)
(***************************************************************************)
SinSgn(x) == LET y == x % pi2
             IN IF y = 0 \/ y = pi THEN 0 ELSE IF y < pi THEN 1 ELSE -1
SinFold(x) == LET y == x % pi
              IN IF 2 * y > pi THEN pi - y ELSE y

\* 10^6 * sin(pi / n), rounded
SinPiOverE6(n) ==
    CASE n = 1 -> 0
      [] n = 2 -> 1000000
      [] n = 3 -> 866025
      [] n = 4 -> 707107
      [] n = 5 -> 587785
      [] n = 6 -> 500000
      [] n = 7 -> 433884
      [] n = 8 -> 382683
      [] n = 9 -> 342020
      [] OTHER -> 0

\* 10^6 * sin(x) for x = +-pi/n
SinE6(x) == IF SinSgn(x) = 0 THEN 0
            ELSE SinSgn(x) * SinPiOverE6(pi \div SinFold(x))

(***************************************************************************)
(* Lengths: c * sin(a) / sin(b), in normal form.                           *)
(***************************************************************************)
ZeroLen == [c |-> 0, a |-> pi \div 2, b |-> pi \div 2]
MkLen(c, a, b) ==
    LET sg == c * SinSgn(a) * SinSgn(b)
        fa == SinFold(a)
        fb == SinFold(b)
    IN IF sg = 0 THEN ZeroLen
       ELSE IF fa = fb THEN [c |-> sg, a |-> pi \div 2, b |-> pi \div 2]
       ELSE [c |-> sg, a |-> fa, b |-> fb]
NumLen(x) == MkLen(x, pi \div 2, pi \div 2)

(***************************************************************************)
(* Positions: formal sums of unit vectors E(angle), coefficients counted   *)
(* in units of 1 / (2 sin b); E(x + pi) = -E(x) folds every angle into     *)
(* [0, pi).  A position is the set of the terms <<key, c>> of its sum,     *)
(* key = <<t, k, b>> the unit vector and c # 0 its coefficient.            *)
(***************************************************************************)
Origin == {}

\* the coefficient of the unit vector `key' in P
PCoef(P, key) ==
    LET at == {p \in P : p[1] = key}
    IN IF at = {} THEN 0 ELSE (CHOOSE p \in at : TRUE)[2]

PAddKey(P, key, c) ==
    LET new == PCoef(P, key) + c
    IN {p \in P : p[1] # key}
       \cup (IF new = 0 THEN {} ELSE {<<key, new>>})

\* P + c * E(ang) / (2 sin b)
PAddE(P, ang, b, c) ==
    LET y == ang.t % pi2
    IN IF c = 0 THEN P
       ELSE IF y >= pi THEN PAddKey(P, <<y - pi, ang.k, b>>, -c)
       ELSE PAddKey(P, <<y, ang.k, b>>, c)

\* the end of a segment of length len drawn from P in direction o:
\* c sin(a) E(o) = (c / 2) (E(o + a - pi/2) - E(o - a - pi/2))
PMove(P, o, len) ==
    PAddE(PAddE(P, Ang(o.t + len.a - pi \div 2, o.k), len.b, len.c),
          Ang(o.t - len.a - pi \div 2, o.k), len.b, -len.c)

(***************************************************************************)
(* Parameter resolution, lines 79-131.                                     *)
(***************************************************************************)
NoAngle == AZero

\* ResolveStep with line 100 (r = -r) left out
ResolveStepNoInvert(radius, vertices, step, edgelen) ==
    LET n == vertices
        m0 == IF IsNone(step) /\ IsNone(edgelen)
              THEN Some(Max(1, (n - 1) \div 2)) ELSE step
    IN IF IsNone(m0)
       THEN [err |-> "none", onlyHull |-> TRUE, r |-> radius, m |-> 0,
             u |-> edgelen]
       ELSE IF Val(m0) >= 0
       THEN [err |-> "none", onlyHull |-> FALSE, r |-> radius,
             m |-> Val(m0), u |-> None]
       ELSE LET m == -Val(m0)
            IN IF m <= 0 \/ m >= n
               THEN [err |-> "TurtleGraphicsError", onlyHull |-> TRUE,
                     r |-> radius, m |-> m, u |-> None]
               ELSE IF 2 * m > n
               THEN [err |-> "none", onlyHull |-> TRUE, r |-> radius,
                     m |-> n - m, u |-> None]
               ELSE [err |-> "none", onlyHull |-> TRUE, r |-> radius,
                     m |-> m, u |-> None]

\* lines 87-100: the default step, the mode and the check of a negative step
ResolveStep(radius, vertices, step, edgelen) ==
    LET n == vertices
        m0 == IF IsNone(step) /\ IsNone(edgelen)
              THEN Some(Max(1, (n - 1) \div 2)) ELSE step
    IN IF IsNone(m0)
       THEN [err |-> "none", onlyHull |-> TRUE, r |-> radius, m |-> 0,
             u |-> edgelen]
       ELSE IF Val(m0) >= 0
       THEN [err |-> "none", onlyHull |-> FALSE, r |-> radius,
             m |-> Val(m0), u |-> None]
       ELSE LET m == -Val(m0)
            IN IF m <= 0 \/ m >= n
               THEN [err |-> "TurtleGraphicsError", onlyHull |-> TRUE,
                     r |-> radius, m |-> m, u |-> None]
               ELSE IF 2 * m > n
               THEN [err |-> "none", onlyHull |-> TRUE, r |-> -radius,
                     m |-> n - m, u |-> None]
               ELSE [err |-> "none", onlyHull |-> TRUE, r |-> radius,
                     m |-> m, u |-> None]

\* lines 102-104
Sgn(r) == IF r < 0 THEN -1 ELSE 1

Geometry(err, mode, n, m, r, alpha, beta, gamma, delta, theta, sigma, s, t, u) ==
    [err |-> err, mode |-> mode, n |-> n, m |-> m, r |-> r,
     alpha |-> alpha, beta |-> beta, gamma |-> gamma, delta |-> delta,
     theta |-> theta, sigma |-> sigma, s |-> s, t |-> t, u |-> u]

Failure(err, n) ==
    Geometry(err, "none", n, 0, 0, 0, 0, 0, 0, NoAngle, NoAngle,
             ZeroLen, ZeroLen, ZeroLen)

\* lines 106-112
ResolveInternal(r, n, m) ==
    LET sgn == Sgn(r)
        alpha == (sgn * pi2) \div n
        beta == (alpha * (m + 1)) \div 2
        gamma == alpha * m
        delta == (sgn * (n - 2) * pi) \div n
        s == MkLen(2 * r, alpha \div 2, pi \div 2)
        t == MkLen(2 * r, gamma \div 2, pi \div 2)
    IN Geometry("none", "Internal", n, m, r, alpha, beta, gamma, delta,
                NoAngle, NoAngle, s, t, ZeroLen)

\* lines 113-121
ResolveHullComputed(r, n, m) ==
    LET sgn == Sgn(r)
        alpha == (sgn * pi2) \div n
        gamma == alpha * m
        delta == (sgn * (n - 2) * pi) \div n
        theta == pi - gamma
        rho == (delta - theta) \div 2
        lambd == pi - (alpha + theta) \div 2
        sigma == pi - 2 * rho
    IN IF SinSgn(lambd) = 0 THEN Failure("ZeroDivisionError", n)
       ELSE Geometry("none", "HullComputed", n, m, r, alpha, 0, gamma, delta,
                     Ang(theta, 0), Ang(sigma, 0), ZeroLen, ZeroLen,
                     MkLen(r, alpha \div 2, lambd))

\* math.acos(s / (2.0 * u)) for |s| <= |2u|, u # 0; s2 is s / 2 times 10^6
Acos(s2, u) ==
    IF s2 = 0 THEN Ang(pi \div 2, 0)
    ELSE IF s2 = u * 1000000 THEN Ang(0, 0)
    ELSE IF s2 = -u * 1000000 THEN Ang(pi, 0)
    ELSE IF (s2 > 0) = (u > 0) THEN Ang(0, 1)
    ELSE Ang(pi, -1)

\* lines 122-131
ResolveHullGiven(radius, n, u) ==
    LET sgn == Sgn(radius)
        r == sgn * radius
        alpha == (sgn * pi2) \div n
        delta == (sgn * (n - 2) * pi) \div n
        s2 == r * SinE6(alpha \div 2)
    IN IF u * 1000000 < s2 THEN Failure("TurtleGraphicsError", n)
       ELSE IF u = 0 THEN Failure("ZeroDivisionError", n)
       ELSE IF Abs(s2) > Abs(u) * 1000000 THEN Failure("ValueError", n)
       ELSE LET rho == Acos(s2, u)
                theta == ASub(Ang(delta, 0), ADouble(rho))
                sigma == ASub(Ang(pi, 0), ADouble(rho))
            IN Geometry("none", "HullGiven", n, 0, r, alpha, 0, 0, delta,
                        theta, sigma, MkLen(2 * r, alpha \div 2, pi \div 2),
                        ZeroLen, NumLen(u))

\* lines 79-131
Resolve(radius, vertices, step, edgelen) ==
    LET p == ResolveStep(radius, vertices, step, edgelen)
    IN IF p.err # "none" THEN Failure(p.err, vertices)
       ELSE IF ~p.onlyHull THEN ResolveInternal(p.r, vertices, p.m)
       ELSE IF IsNone(p.u) THEN ResolveHullComputed(p.r, vertices, p.m)
       ELSE ResolveHullGiven(p.r, vertices, Val(p.u))

(***************************************************************************)
(* The undo buffer of the turtle (Tbuffer): a ring of BufSize slots.  A    *)
(* slot is the list [None] (kind "none"), a tuple pushed by one command    *)
(* (kind "item") or a list ["seq", ...] (kind "seq"); body holds what      *)
(* follows the head of a list, or the one tuple.  shared marks the slots   *)
(* that still are the one list [None] the constructor puts in every slot:  *)
(* an append to it shows in all of them.  No command appends before a push *)
(* has replaced one slot, so that buffers of one or two slots never have   *)
(* two such slots when it matters, and their slots are not marked.         *)
(* The ring is kept turned so that buffer[1] is the slot at ptr,           *)
(* buffer[2] the slot before it, and buffer[BufSize] the slot after it.    *)
(***************************************************************************)
Item(op, ang, old, fill, pen, speed) ==
    [op |-> op, ang |-> ang, old |-> old, fill |-> fill, pen |-> pen,
     speed |-> speed]
\* ("rot", angle, degPAU): a turn by the angle a
RotItem(a) == Item("rot", a, Origin, FALSE, None, None)
\* ("go", old, new, go_modes, ...): a move from old, filling or not
GoItem(old, fill) == Item("go", AZero, old, fill, None, None)
\* ("pen", {"pendown": p, "speed": s, ...}): the former values of the
\* attributes set, None for "pendown" or "speed" when it is not among them
PenItem(p, s) == Item("pen", AZero, Origin, FALSE, p, s)
\* ("beginfill", item), ("dofill", item), ("wri", item) and
\* the list ["seq"]
Mark(op) == Item(op, AZero, Origin, FALSE, None, None)

Slot(kind, body, shared) == [kind |-> kind, body |-> body, shared |-> shared]
Blank == Slot("none", << >>, FALSE)

\* Tbuffer(bufsize)
NewBuffer ==
    [cumulate |-> FALSE,
     buffer |-> [i \in 1..BufSize |-> Slot("none", << >>, BufSize > 2)]]

\* buffer[ptr]
Top(undo) == undo.buffer[1]

\* buffer[ptr].append raises AttributeError on a tuple
CanPush(undo) == ~undo.cumulate \/ Top(undo).kind # "item"

\* Tbuffer.push(item), when it does not raise
Push(undo, item) ==
    IF ~undo.cumulate
    THEN LET slot == IF item.op = "seq" THEN Slot("seq", << >>, FALSE)
                     ELSE Slot("item", <<item>>, FALSE)
         IN [undo EXCEPT !.buffer = <<slot>> \o SubSeq(@, 1, BufSize - 1)]
    ELSE IF ~Top(undo).shared
    THEN [undo EXCEPT !.buffer[1].body = Append(@, item)]
    ELSE [undo EXCEPT !.buffer =
            [i \in 1..BufSize |->
                IF @[i].shared THEN [@[i] EXCEPT !.body = Append(@, item)]
                ELSE @[i]]]

\* Tbuffer.pop(): the slot at ptr becomes a new [None], ptr steps back
Pop(undo) ==
    [undo EXCEPT !.buffer = SubSeq(@, 2, BufSize) \o <<Blank>>]

\* Tbuffer.nr_of_items(): the slots other than [None]
Entries(undo) ==
    Cardinality({i \in 1..BufSize :
                    undo.buffer[i].kind # "none"
                    \/ undo.buffer[i].body # << >>})

\* the commands the buffer holds
RECURSIVE HeldFrom(_, _)
HeldFrom(undo, i) ==
    IF i > BufSize THEN 0
    ELSE Len(undo.buffer[i].body) + HeldFrom(undo, i + 1)
Held(undo) == HeldFrom(undo, 1)

(***************************************************************************)
(* The turtle, as far as star uses it.  orient is the direction of motion  *)
(* (counterclockwise positive, independent of the angle unit); full is the *)
(* angle unit (_fullcircle); skew says that a nonzero angle was read in a  *)
(* unit other than the one it was written in, so that orient is not the    *)
(* direction the caller meant.  filling and fillpath are whether           *)
(* _fillpath is a list, and its length.                                    *)
(***************************************************************************)
Units == {"deg", "rad"}

\* a number of angle units: the angle a, written in the unit `unit'
Num(unit, a) == [unit |-> unit, a |-> a]
Rad(a) == Num("rad", a)

Entry(op, line, num, len, cur) ==
    [op |-> op, line |-> line, ang |-> num.a, len |-> len,
     pen |-> cur.pen, pos |-> cur.pos]

\* a command of star: the turtle it leaves, the tuple it pushes (None when
\* it pushes nothing) and its record in the log
Emit(M, cur, item, e) ==
    [cur |-> cur,
     undo |-> IF IsNone(item) THEN M.undo ELSE Push(M.undo, Val(item)),
     log |-> Append(M.log, e)]

\* self._rotate(x)
Rotate(M, x, line) ==
    LET c == M.cur
        ok == x.unit = c.full \/ x.a = AZero
        c2 == [c EXCEPT !.orient = ANorm(AAdd(c.orient, x.a)),
                        !.skew = c.skew \/ ~ok]
    IN Emit(M, c2, Some(RotItem(x.a)), Entry("rotate", line, x, ZeroLen, c2))

\* RawTurtle._goto(end)
MoveTo(c, end) ==
    [c EXCEPT !.pos = end,
              !.fillpath = IF c.filling THEN c.fillpath + 1 ELSE c.fillpath]

\* self.forward(x)
Forward(M, x, line) ==
    LET c == M.cur
        c2 == MoveTo(c, PMove(c.pos, c.orient, x))
    IN Emit(M, c2, Some(GoItem(c.pos, c.filling)),
            Entry("forward", line, Rad(AZero), x, c2))

\* self.penup()
PenUp(M, line) ==
    LET c2 == [M.cur EXCEPT !.pen = FALSE]
    IN Emit(M, c2, IF M.cur.pen THEN Some(PenItem(Some(TRUE), None)) ELSE None,
            Entry("penup", line, Rad(AZero), ZeroLen, c2))

\* self.pendown()
PenDown(M, line) ==
    LET c2 == [M.cur EXCEPT !.pen = TRUE]
    IN Emit(M, c2, IF M.cur.pen THEN None ELSE Some(PenItem(Some(FALSE), None)),
            Entry("pendown", line, Rad(AZero), ZeroLen, c2))

\* self.goto(posit)
Goto(M, p, line) ==
    LET c2 == MoveTo(M.cur, p)
    IN Emit(M, c2, Some(GoItem(M.cur.pos, M.cur.filling)),
            Entry("goto", line, Rad(AZero), ZeroLen, c2))

\* self.heading(): the number of angle units of the current direction
Heading(c) ==
    Num(c.full, IF c.mode = "standard" THEN c.orient
                ELSE ANorm(ASub(Ang(pi \div 2, 0), c.orient)))

\* the angle between -full/2 and full/2 of the same direction
AHalfTurn(x) == Ang(((x.t + pi) % pi2) - pi, x.k)

\* self.setheading(x): a turn by the difference to the current heading
SetHeading(M, x, line) ==
    LET c == M.cur
        ok == x.unit = c.full \/ x.a = AZero
        o == IF c.mode = "standard" THEN x.a
             ELSE ANorm(ASub(Ang(pi \div 2, 0), x.a))
        c2 == [c EXCEPT !.orient = o, !.skew = ~ok]
    IN Emit(M, c2, Some(RotItem(AHalfTurn(ASub(o, c.orient)))),
            Entry("setheading", line, x, ZeroLen, c2))

\* self.radians()
Radians(M, line) ==
    LET c2 == [M.cur EXCEPT !.full = "rad"]
    IN Emit(M, c2, None, Entry("radians", line, Rad(AZero), ZeroLen, c2))

\* self.degrees(full)
Degrees(M, full, line) ==
    LET c2 == [M.cur EXCEPT !.full = full]
    IN Emit(M, c2, None, Entry("degrees", line, Rad(AZero), ZeroLen, c2))

(***************************************************************************)
(* The drawing, lines 133-182.  A loop goes to its next iteration with the *)
(* turtle the iteration has left, already evaluated (Known), so that the   *)
(* evaluation does not nest as deep as the log is long.                    *)
(***************************************************************************)
Known(M) == Len(M.log) >= 0

\* TraceLoop without the stellation branch of line 147
RECURSIVE TraceLoopNoSeam(_, _, _, _)
TraceLoopNoSeam(M, G, n1, i) ==
    IF i >= G.n THEN M
    ELSE LET next == Forward(Rotate(M, Rad(Ang(G.gamma, 0)), 154), G.t, 155)
         IN IF Known(next) THEN TraceLoopNoSeam(next, G, n1, i + 1) ELSE next

\* TraceLoop with the test of line 147 written i % n1 == 0
RECURSIVE TraceLoopSeamAtZero(_, _, _, _)
TraceLoopSeamAtZero(M, G, n1, i) ==
    IF i >= G.n THEN M
    ELSE LET turned ==
                 IF i % n1 = 0
                 THEN Rotate(
                        PenDown(
                          Forward(
                            PenUp(Rotate(M, Rad(Ang(G.beta, 0)), 148), 149),
                            G.s, 150),
                          151),
                        Rad(Ang(G.beta, 0)), 152)
                 ELSE Rotate(M, Rad(Ang(G.gamma, 0)), 154)
             next == Forward(turned, G.t, 155)
         IN IF Known(next) THEN TraceLoopSeamAtZero(next, G, n1, i + 1) ELSE next

\* lines 146-155, iterations i .. n-1
RECURSIVE TraceLoop(_, _, _, _)
TraceLoop(M, G, n1, i) ==
    IF i >= G.n THEN M
    ELSE LET turned ==
                 IF i # 0 /\ i % n1 = 0
                 THEN Rotate(
                        PenDown(
                          Forward(
                            PenUp(Rotate(M, Rad(Ang(G.beta, 0)), 148), 149),
                            G.s, 150),
                          151),
                        Rad(Ang(G.beta, 0)), 152)
                 ELSE Rotate(M, Rad(Ang(G.gamma, 0)), 154)
             next == Forward(turned, G.t, 155)
         IN IF Known(next) THEN TraceLoop(next, G, n1, i + 1) ELSE next

\* lines 160-162, iterations i .. d-2
RECURSIVE FillLoop(_, _, _, _)
FillLoop(M, G, d, i) ==
    IF i >= d - 1 THEN M
    ELSE LET next == Rotate(Forward(M, G.s, 161), Rad(Ang(-G.alpha, 0)), 162)
         IN IF Known(next) THEN FillLoop(next, G, d, i + 1) ELSE next

\* lines 157-163
FillClose(M, G, d) ==
    IF M.cur.filling
    THEN PenDown(
           FillLoop(
             Rotate(PenUp(M, 158), Rad(Ang(G.beta + G.delta, 0)), 159),
             G, d, 0),
           163)
    ELSE M

\* lines 142-163
DrawInternal(M, G) ==
    LET d == GCD(G.n, G.m)
        n1 == G.n \div d
    IN FillClose(
         TraceLoop(Rotate(M, Rad(Ang((-G.gamma) \div 2, 0)), 145), G, n1, 0),
         G, d)

\* lines 168-172, iterations i .. n-1
RECURSIVE HullLoop(_, _, _)
HullLoop(M, G, i) ==
    IF i >= G.n THEN M
    ELSE LET next == Rotate(
                        Forward(
                          Rotate(Forward(M, G.u, 169),
                                 Rad(ASub(G.sigma, Ang(pi, 0))), 170),
                          G.u, 171),
                        Rad(ASub(Ang(pi, 0), G.theta)), 172)
         IN IF Known(next) THEN HullLoop(next, G, i + 1) ELSE next

\* lines 167-172
DrawHull(M, G) ==
    HullLoop(Rotate(M, Rad(AHalf(ASub(Ang(pi, 0), G.theta))), 167), G, 0)

\* Restore with the heading set before the angle unit is restored
RestoreHeadingFirst(M, orient, posit, full) ==
    Degrees(
      PenDown(Goto(PenUp(SetHeading(M, orient, 182), 178), posit, 179), 180),
      full, 176)

\* lines 176-182
Restore(M, orient, posit, full) ==
    SetHeading(
      PenDown(Goto(PenUp(Degrees(M, full, 176), 178), posit, 179), 180),
      orient, 182)

\* lines 133-182
Draw(M, G) ==
    LET orient == Heading(M.cur)
        posit == M.cur.pos
        full == M.cur.full
        M1 == Radians(M, 138)
        M2 == IF G.mode = "Internal" THEN DrawInternal(M1, G)
              ELSE DrawHull(M1, G)
    IN Restore(M2, orient, posit, full)

\* lines 73-75
UndoBegin(undo) == [Push(undo, Mark("seq")) EXCEPT !.cumulate = TRUE]

\* lines 184-185
UndoEnd(undo) == [undo EXCEPT !.cumulate = FALSE]

\* star with the checks of lines 97 and 128 made after line 138
starLateCheck(cur, undo, radius, vertices, step, edgelen) ==
    IF ~CanPush(undo)
    THEN [cur |-> cur, undo |-> undo, log |-> << >>,
          raised |-> "AttributeError",
          G |-> Resolve(radius, vertices, step, edgelen)]
    ELSE
    LET M0 == [cur |-> cur, undo |-> UndoBegin(undo), log |-> << >>]
        G == Resolve(radius, vertices, step, edgelen)
    IN IF G.err # "none"
       THEN LET M == Radians(M0, 138)
            IN [cur |-> M.cur, undo |-> M.undo, log |-> M.log,
                raised |-> G.err, G |-> G]
       ELSE LET M == Draw(M0, G)
            IN [cur |-> M.cur, undo |-> UndoEnd(M.undo), log |-> M.log,
                raised |-> "none", G |-> G]

\* TurtleEx.star, lines 8-185: the turtle, the undo buffer, the commands
\* issued and the exception raised ("none" when the call returns); the
\* push of line 74 raises when the buffer is cumulating into a tuple
star(cur, undo, radius, vertices, step, edgelen) ==
    IF ~CanPush(undo)
    THEN [cur |-> cur, undo |-> undo, log |-> << >>,
          raised |-> "AttributeError",
          G |-> Resolve(radius, vertices, step, edgelen)]
    ELSE
    LET M0 == [cur |-> cur, undo |-> UndoBegin(undo), log |-> << >>]
        G == Resolve(radius, vertices, step, edgelen)
    IN IF G.err # "none"
       THEN [cur |-> M0.cur, undo |-> M0.undo, log |-> M0.log,
             raised |-> G.err, G |-> G]
       ELSE LET M == Draw(M0, G)
            IN [cur |-> M.cur, undo |-> UndoEnd(M.undo), log |-> M.log,
                raised |-> "none", G |-> G]

(***************************************************************************)
(* undo(): the commands of the slot at ptr are taken back, the last first. *)
(* W is the turtle, the buffer, and whether a push has raised.             *)
(***************************************************************************)
\* _undo("rot", ...): self._rotate(-angle * degPAU / self._degreesPerAU),
\* then self.undobuffer.pop()
UndoRotate(W, a) ==
    IF ~CanPush(W.undo) THEN [W EXCEPT !.err = TRUE]
    ELSE [cur |-> [W.cur EXCEPT !.orient = ANorm(ASub(W.cur.orient, a))],
          undo |-> Pop(Push(W.undo, RotItem(ANeg(a)))),
          err |-> FALSE]

\* _undogoto(entry)
UndoGoto(W, item) ==
    LET c == W.cur
        c2 == IF item.fill /\ c.filling
              THEN IF c.fillpath = 0
                   THEN [c EXCEPT !.pos = item.old, !.filling = FALSE]
                   ELSE [c EXCEPT !.pos = item.old,
                                  !.fillpath = c.fillpath - 1]
              ELSE [c EXCEPT !.pos = item.old]
    IN [W EXCEPT !.cur = c2]

\* TPen.pen(pen): p and s are the values of "pendown" and "speed" in pen,
\* None for a key pen does not have; the tuple pushed holds the former
\* values of the keys of pen
SetPen(c, undo, p, s) ==
    IF ~CanPush(undo) THEN [cur |-> c, undo |-> undo, err |-> TRUE]
    ELSE [cur |-> [c EXCEPT !.pen = IF IsNone(p) THEN @ ELSE Val(p),
                            !.speed = IF IsNone(s) THEN @ ELSE Val(s)],
          undo |-> Push(undo,
                        PenItem(IF IsNone(p) THEN None ELSE Some(c.pen),
                                IF IsNone(s) THEN None ELSE Some(c.speed))),
          err |-> FALSE]

\* _undo("pen", ...): TPen.pen(self, data[0]), then self.undobuffer.pop()
UndoPen(W, item) ==
    LET W2 == SetPen(W.cur, W.undo, item.pen, item.speed)
    IN IF W2.err THEN W2 ELSE [W2 EXCEPT !.undo = Pop(W2.undo)]

\* RawTurtle._undo(action, data)
UndoItem(W, item) ==
    CASE item.op = "rot" -> UndoRotate(W, item.ang)
      [] item.op = "go" -> UndoGoto(W, item)
      [] item.op = "pen" -> UndoPen(W, item)
      [] item.op = "beginfill" ->
            [W EXCEPT !.cur = [W.cur EXCEPT !.filling = FALSE,
                                            !.fillpath = 0]]
      [] OTHER -> W

\* while data: item = data.pop(); self._undo(item[0], item[1:])
\* for the items data[lo..hi], the last first: the upper half, then the
\* lower half, so that the evaluation nests no deeper than log2 of their
\* number
RECURSIVE UndoRange(_, _, _, _)
UndoRange(W, data, lo, hi) ==
    IF W.err \/ lo > hi THEN W
    ELSE IF lo = hi THEN UndoItem(W, data[lo])
    ELSE LET mid == (lo + hi) \div 2
         IN UndoRange(UndoRange(W, data, mid + 1, hi), data, lo, mid)

UndoSeq(W, data) == UndoRange(W, data, 1, Len(data))

\* RawTurtle.undo()
Undo(c, undo) ==
    LET slot == Top(undo)
        W == [cur |-> c, undo |-> Pop(undo), err |-> FALSE]
    IN CASE slot.kind = "seq" -> UndoSeq(W, slot.body)
         [] slot.kind = "item" -> UndoItem(W, slot.body[1])
         [] OTHER -> W

(***************************************************************************)
(* The program: the turtle t0 = TurtleEx() of line 191, its undo buffer,   *)
(* and the calls the demos make on it (lines 199-253), in any order.       *)
(* call is the record of the last call of star, for as long as no other    *)
(* command has followed it.                                                *)
(***************************************************************************)
VARIABLES cur, undo, call

vars == <<cur, undo, call>>

StartOrient(mode) == IF mode = "standard" THEN AZero ELSE Ang(pi \div 2, 0)

NewTurtle(mode, full) ==
    [pos |-> Origin, orient |-> StartOrient(mode), skew |-> FALSE,
     full |-> full, mode |-> mode, pen |-> TRUE, speed |-> 3,
     filling |-> FALSE, fillpath |-> 0]

NoCall ==
    [op |-> "none", radius |-> 0, vertices |-> 0, step |-> None,
     edgelen |-> None, pre |-> NewTurtle("standard", "deg"),
     preUndo |-> NewBuffer, raised |-> "none", log |-> << >>]

\* the (step, edgelen) of a call: neither, one of them, or both
StepArgs == {None} \cup {Some(m) : m \in Steps}
EdgeArgs == {None} \cup {Some(u) : u \in EdgeLens}
Args == {a \in StepArgs \X EdgeArgs :
            IsNone(a[1]) \/ IsNone(a[2])
            \/ (a[2] = Some(100) /\ Abs(Val(a[1])) = 2)}

\* t0 = TurtleEx(), line 191: mode "standard", degrees, an undo buffer
Init ==
    /\ cur = NewTurtle("standard", "deg")
    /\ undo = NewBuffer
    /\ call = NoCall

\* the client calls star on a turtle it has made the fastest (lines 215
\* and 243), when the buffer holds few enough commands, before the call and
\* once the call has pushed its list (line 74), and the fill path is short
\* enough
Fits ==
    /\ cur.speed = 0
    /\ Held(undo) <= MaxHeld
    /\ CanPush(undo) => Held(UndoBegin(undo)) <= MaxHeld
    /\ cur.fillpath <= MaxPath

\* turtle.star(...), lines 225-230 and 247
Star(radius, vertices, step, edgelen) ==
    /\ call.op = "none"
    /\ Fits
    /\ \E R \in {star(cur, undo, radius, vertices, step, edgelen)} :
       /\ cur' = R.cur
       /\ undo' = R.undo
       /\ call' = [op |-> "star", radius |-> radius, vertices |-> vertices,
                   step |-> step, edgelen |-> edgelen, pre |-> cur,
                   preUndo |-> undo, raised |-> R.raised, log |-> R.log]

\* a command of the client other than star: the turtle and the buffer it
\* leaves (as they were when its push raises)
Sets(W) ==
    \E w \in {W} :
        /\ cur' = w.cur
        /\ undo' = w.undo
        /\ call' = NoCall

\* a command that pushes: the client issues it when the buffer holds at
\* most MaxHeld commands afterwards
Does(W) == \E w \in {W} : Held(w.undo) <= MaxHeld /\ Sets(w)

\* turtle.penup(), line 211; turtle.up(), line 249
CallPenUp ==
    /\ cur.pen
    /\ Does(SetPen(cur, undo, Some(FALSE), None))

\* turtle.pendown(), line 213
CallPenDown ==
    /\ ~cur.pen
    /\ Does(SetPen(cur, undo, Some(TRUE), None))

\* turtle.hideturtle(), turtle.color(...): lines 207, 217, 223, 226, 228,
\* 231, 242, 245, 252
CallPen ==
    Does(SetPen(cur, undo, None, None))

\* turtle.speed('fastest'), lines 215 and 243 ('fastest' is 0), on the
\* turtle that reset() has slowed down
CallSpeed ==
    /\ cur.speed # 0
    /\ Does(SetPen(cur, undo, None, Some(0)))

\* RawTurtle._goto(end) as a command of the client
GoTo(c, u, end) ==
    IF ~CanPush(u) THEN [cur |-> c, undo |-> u, err |-> TRUE]
    ELSE [cur |-> MoveTo(c, end),
          undo |-> Push(u, GoItem(c.pos, c.filling)),
          err |-> FALSE]

\* the point (x, y) with the x of P: E(a) has the x of (E(a) + E(-a)) / 2
XPart(P) ==
    LET keys == {p[1] : p \in P}
        flip(k) == <<(pi - k[1]) % pi, -k[2], k[3]>>
        sgn(k) == IF k[1] = 0 THEN 1 ELSE -1
        all == keys \cup {flip(k) : k \in keys}
        co(k) == PCoef(P, k) + sgn(k) * PCoef(P, flip(k))
    IN {<<k, co(k) \div 2>> : k \in {x \in all : co(x) # 0}}

\* the turtle is where reset() puts it, as it is when the demos move or
\* turn it (lines 205-212 and 241-250)
AtHome == cur.pos = Origin /\ cur.orient = StartOrient(cur.mode)

\* turtle.sety(-r), line 212, r = 250
CallSetY ==
    /\ AtHome
    /\ Does(GoTo(cur, undo,
                 PMove(XPart(cur.pos), Ang(pi \div 2, 0), NumLen(-250))))

\* turtle.right(150), line 250: the turtle counts in degrees
CallRight ==
    /\ AtHome
    /\ Does(IF ~CanPush(undo) THEN [cur |-> cur, undo |-> undo, err |-> TRUE]
            ELSE LET M == Rotate([cur |-> cur, undo |-> undo, log |-> << >>],
                                 Num("deg", Ang(-((5 * pi) \div 6), 0)), 250)
                 IN [cur |-> M.cur, undo |-> M.undo, err |-> FALSE])

\* turtle.forward(80), line 251, from the origin in the direction the
\* turtle has
CallForward ==
    /\ cur.pos = Origin
    /\ Does(GoTo(cur, undo, PMove(cur.pos, cur.orient, NumLen(80))))

\* turtle.begin_fill(), lines 224 and 246: the path is reset before the
\* push
CallBeginFill ==
    LET c2 == [cur EXCEPT !.filling = TRUE, !.fillpath = 1]
    IN Does(IF ~CanPush(undo)
            THEN [cur |-> c2, undo |-> undo, err |-> TRUE]
            ELSE [cur |-> c2, undo |-> Push(undo, Mark("beginfill")),
                  err |-> FALSE])

\* turtle.end_fill(), lines 232 and 248
CallEndFill ==
    /\ cur.filling
    /\ LET c2 == [cur EXCEPT !.filling = FALSE, !.fillpath = 0]
       IN Does(IF cur.fillpath <= 2
               THEN [cur |-> c2, undo |-> undo, err |-> FALSE]
               ELSE IF ~CanPush(undo)
               THEN [cur |-> cur, undo |-> undo, err |-> TRUE]
               ELSE [cur |-> c2, undo |-> Push(undo, Mark("dofill")),
                     err |-> FALSE])

\* turtle.dot(), line 209: the screen has no _dot, and the dot is a move by
\* 0 with the pen down, between a pen() that sets the size and the pen()
\* that restores the pen, all in a "seq" of its own
CallDot ==
    /\ Held(undo) <= MaxHeld
    /\ cur.filling => cur.fillpath < MaxPath
    /\ Sets(IF ~CanPush(undo) THEN [cur |-> cur, undo |-> undo, err |-> TRUE]
            ELSE LET W1 == IF cur.pen
                           THEN [cur |-> cur, undo |-> UndoBegin(undo),
                                 err |-> FALSE]
                           ELSE SetPen(cur, UndoBegin(undo), Some(TRUE), None)
                     W2 == SetPen(W1.cur, W1.undo, None, None)
                     W3 == GoTo(W2.cur, W2.undo, W2.cur.pos)
                     W4 == SetPen(W3.cur, W3.undo, Some(cur.pen),
                                  Some(cur.speed))
                 IN [W4 EXCEPT !.undo = UndoEnd(W4.undo)])

\* self._rotate(a) of circle
CircleTurn(W, a) ==
    [cur |-> [W.cur EXCEPT !.orient = ANorm(AAdd(@, a))],
     undo |-> Push(W.undo, RotItem(a)),
     err |-> FALSE]

\* one iteration of the loop of circle: self.speed(speed), self._go(l),
\* self.speed(0), self._rotate(w)
CircleStep(W, w, l, speed) ==
    LET W1 == SetPen(W.cur, W.undo, None, Some(speed))
        W2 == GoTo(W1.cur, W1.undo, PMove(W1.cur.pos, W1.cur.orient, l))
        W3 == SetPen(W2.cur, W2.undo, None, Some(0))
    IN CircleTurn(W3, w)

\* the loop of circle, iterations lo .. hi: the lower half, then the upper
\* half, so that the evaluation nests no deeper than log2 of their number
RECURSIVE CircleLoop(_, _, _, _, _, _)
CircleLoop(W, w, l, speed, lo, hi) ==
    IF W.err \/ lo > hi THEN W
    ELSE IF lo = hi THEN CircleStep(W, w, l, speed)
    ELSE LET mid == (lo + hi) \div 2
         IN CircleLoop(CircleLoop(W, w, l, speed, lo, mid),
                       w, l, speed, mid + 1, hi)

\* TNavigator.circle(radius): a polygon of `steps' sides inscribed in the
\* circle, its commands in a "seq" of their own; the turtle is slowed down
\* to draw each side only, and turns without animation
circle(c, u, radius) ==
    IF ~CanPush(u) THEN [cur |-> c, undo |-> u, err |-> TRUE]
    ELSE LET steps == CircleSteps(radius)
             sg == IF radius < 0 THEN -1 ELSE 1
             w == Ang(sg * (pi2 \div steps), 0)
             w2 == Ang(sg * (pi \div steps), 0)
             l == MkLen(2 * Abs(radius), pi \div steps, pi \div 2)
             speed == c.speed
             W0 == [cur |-> c, undo |-> UndoBegin(u), err |-> FALSE]
             W1 == IF speed = 0 THEN W0
                   ELSE SetPen(W0.cur, W0.undo, None, Some(0))
             W2 == CircleLoop(CircleTurn(W1, w2), w, l, speed, 0, steps - 1)
             W3 == CircleTurn(W2, ANeg(w2))
             W4 == SetPen(W3.cur, W3.undo, None, Some(speed))
         IN [W4 EXCEPT !.undo = UndoEnd(W4.undo)]

\* turtle.circle(r), line 216, r = 250: not the command that follows a
\* call of star
CallCircle ==
    /\ call.op = "none"
    /\ Held(undo) <= MaxHeld
    /\ cur.fillpath <= MaxPath
    /\ Sets(circle(cur, undo, 250))

\* turtle.write(...), line 253: the text is pushed into a "seq" of its own
\* and cumulate is False afterwards
CallWrite ==
    Does(IF ~CanPush(undo) THEN [cur |-> cur, undo |-> undo, err |-> TRUE]
         ELSE [cur |-> cur,
               undo |-> UndoEnd(Push(UndoBegin(undo), Mark("wri"))),
               err |-> FALSE])

\* turtle.undo() of the loop of lines 235-236
CallUndo ==
    /\ Entries(undo) > 0
    /\ Sets(Undo(cur, undo))

\* turtle.clear(), lines 206 and 244
CallClear ==
    Sets([cur |-> [cur EXCEPT !.filling = FALSE, !.fillpath = 0],
          undo |-> NewBuffer, err |-> FALSE])

\* turtle.reset(), lines 205 and 241
CallReset ==
    Sets([cur |-> NewTurtle(cur.mode, cur.full), undo |-> NewBuffer,
          err |-> FALSE])

\* the record of the last call is dropped: call is an observation of the
\* run, not a part of the turtle, and the next call starts from the turtle
\* and the undo buffer alone
Forget ==
    /\ call.op = "star"
    /\ Fits
    /\ call' = NoCall
    /\ UNCHANGED <<cur, undo>>

Next ==
    \/ \E radius \in Radii, vertices \in Vertices, a \in Args :
          Star(radius, vertices, a[1], a[2])
    \/ CallPenUp
    \/ CallPenDown
    \/ CallPen
    \/ CallSpeed
    \/ CallSetY
    \/ CallRight
    \/ CallForward
    \/ CallBeginFill
    \/ CallEndFill
    \/ CallDot
    \/ CallCircle
    \/ CallWrite
    \/ CallUndo
    \/ CallClear
    \/ CallReset
    \/ Forget

Spec == Init /\ [][Next]_vars

TypeOK ==
    /\ cur.full \in Units
    /\ cur.mode = "standard"
    /\ cur.pen \in BOOLEAN
    /\ cur.speed \in {0, 3}
    /\ pi % CircleSteps(250) = 0
    /\ cur.filling \in BOOLEAN
    /\ cur.fillpath >= 0
    /\ undo.cumulate \in BOOLEAN
    /\ Entries(undo) \in 0..BufSize

(***************************************************************************)
(* Properties.                                                             *)
(***************************************************************************)
Called == call.op = "star"
Returned == Called /\ call.raised = "none"
Raised == Called /\ call.raised # "none"
CallG == Resolve(call.radius, call.vertices, call.step, call.edgelen)
BothGiven == ~IsNone(call.step) /\ ~IsNone(call.edgelen)
Moved == \E j \in DOMAIN call.log : call.log[j].pos # call.pre.pos

\* C1: when a call of star returns, the turtle's position, heading and
\* angle unit are those it had immediately before the call, in every mode,
\* for either sign of the radius, with or without stellation, filling or not.
C1_Closure ==
    Returned =>
        /\ cur.pos = call.pre.pos
        /\ Heading(cur) = Heading(call.pre)
        /\ cur.orient = call.pre.orient
        /\ cur.skew = call.pre.skew
        /\ cur.full = call.pre.full

\* a filling turtle counting in degrees and turned away from its start
\* direction has drawn a stellated star of negative radius and moved
C1_Witness ==
    /\ Returned
    /\ CallG.mode = "Internal"
    /\ call.radius < 0
    /\ GCD(call.vertices, CallG.m) > 1
    /\ call.pre.filling
    /\ call.pre.full = "deg"
    /\ call.pre.orient # StartOrient(call.pre.mode)
    /\ Moved

\* C2: a call given both step and edgelen fails with an InvalidArguments
\* error and draws nothing.
C2_BothRejected ==
    (Called /\ BothGiven) =>
        (call.raised = "InvalidArguments" /\ call.log = << >>)

\* C3: a call with a step fails with the step error exactly when |step| is
\* not in [1, vertices - 1].
C3_StepValidated ==
    (Called /\ ~IsNone(call.step)) =>
        ((call.raised = "TurtleGraphicsError")
            <=> ~(1 <= Abs(Val(call.step))
                  /\ Abs(Val(call.step)) <= call.vertices - 1))

\* C4: a call that fails has issued no turtle command: its position,
\* heading, angle unit and pen are as before the call.
C4_NoCommandOnFailure ==
    Raised => (call.log = << >> /\ cur = call.pre)

\* an edge length below the bound was refused for a turtle counting in
\* degrees whose pen is up
C4_Witness ==
    /\ Called
    /\ call.raised = "TurtleGraphicsError"
    /\ IsNone(call.step)
    /\ ~IsNone(call.edgelen)
    /\ call.pre.full = "deg"
    /\ ~call.pre.pen

\* C5: a call that returns leaves the pen (up or down) and the filling
\* state as the caller set them.
C5_PenPreserved ==
    Returned =>
        (cur.pen = call.pre.pen /\ cur.filling = call.pre.filling)

\* C10: after every call of star on a turtle with an undo buffer, returned
\* or raised, the buffer's cumulate flag is False.
C10_CumulateClosed ==
    Called => ~undo.cumulate

(***************************************************************************)
(* The vertices of the circumscribed circle, numbered from the position at *)
(* the call in the direction of drawing (docstring, lines 21-23): the      *)
(* circle has radius |radius| and is tangent to the heading at vertex 0,   *)
(* on the turtle's left when radius > 0 and on its right when radius < 0.  *)
(***************************************************************************)
VertexPos(v) ==
    LET o == call.pre.orient
        a == (Sgn(call.radius) * pi2) \div call.vertices
        phi == o.t - pi \div 2
    IN PAddE(PAddE(call.pre.pos, Ang(phi + v * a, o.k), pi \div 2,
                   2 * call.radius),
             Ang(phi, o.k), pi \div 2, -2 * call.radius)

PosBefore(j) == IF j = 1 THEN call.pre.pos ELSE call.log[j - 1].pos

\* the places in the log of the chords of line 155 and of the jumps of
\* line 150
ChordAt == {j \in DOMAIN call.log :
               call.log[j].op = "forward" /\ call.log[j].line = 155}
JumpAt == {j \in DOMAIN call.log :
              call.log[j].op = "forward" /\ call.log[j].line = 150}
\* the places of the chords from place j on, in the order of the log
RECURSIVE ChordsFrom(_)
ChordsFrom(j) ==
    IF j > Len(call.log) THEN << >>
    ELSE IF j \in ChordAt THEN <<j>> \o ChordsFrom(j + 1)
    ELSE ChordsFrom(j + 1)

InternalCase ==
    /\ Returned
    /\ \E G \in {CallG} :
          /\ G.mode = "Internal"
          /\ 1 <= G.m
          /\ G.m <= call.vertices - 1

\* n chords in d groups of n/d; chord j of group g starts on vertex
\* g + j*m and ends m vertices further; group g starts and ends on vertex
\* g; every vertex starts exactly one chord
Decomposition(penDown) ==
    \E G \in {CallG}, chords \in {ChordsFrom(1)} :
    LET n == call.vertices
        m == G.m
        d == GCD(n, m)
        n1 == n \div d
        start(k) == ((k \div n1) + (k % n1) * m) % n
        \* the place of chord number k, k = 0, 1, ...
        Chord(k) == chords[k + 1]
    IN /\ Len(chords) = n
       /\ \A k \in 0..(n - 1) :
              /\ penDown => call.log[Chord(k)].pen
              /\ call.log[Chord(k)].len = G.t
              /\ PosBefore(Chord(k)) = VertexPos(start(k))
              /\ call.log[Chord(k)].pos = VertexPos((start(k) + m) % n)
       /\ \A g \in 0..(d - 1) :
              /\ PosBefore(Chord(g * n1)) = VertexPos(g)
              /\ call.log[Chord(g * n1 + n1 - 1)].pos = VertexPos(g)
       /\ \A v \in 0..(n - 1) :
              Cardinality({k \in 0..(n - 1) : start(k) = v}) = 1
       /\ call.radius # 0 =>
              \A v \in 0..(n - 1) :
                  \E at \in {VertexPos(v)} :
                      Cardinality({k \in 0..(n - 1) :
                                      PosBefore(Chord(k)) = at}) = 1

\* C6 (as stated): with 1 <= m <= n-1 and d = gcd(n, m) the trace loop
\* emits exactly n pen-down chords, in d groups of n/d, each from a vertex v
\* to vertex (v+m) mod n, each group closed, successive groups starting on
\* adjacent vertices, every vertex the start of exactly one chord.
C6_Decomposition ==
    InternalCase => Decomposition(TRUE)

\* C6 (amended): the same, the chords being pen-down when the pen is down
\* at the call.
C6_DecompositionPen ==
    InternalCase => Decomposition(call.pre.pen)

\* a stellated star with d = 2 and one with d = 3 have been drawn pen down
C6_Witness ==
    /\ InternalCase
    /\ call.pre.pen
    /\ call.radius # 0
    /\ call.vertices = 6
    /\ CallG.m = 4
    /\ GCD(call.vertices, CallG.m) = 2

Hexagram ==
    /\ Returned
    /\ call.radius = 250
    /\ call.vertices = 6
    /\ call.step = Some(2)
    /\ IsNone(call.edgelen)

\* a stellation seam at place j of the log: rotate beta, pen up,
\* forward s, pen down, rotate beta
Seam(j) ==
    /\ j - 2 \in DOMAIN call.log
    /\ j + 2 \in DOMAIN call.log
    /\ call.log[j - 2].op = "rotate"
    /\ call.log[j - 2].ang = Ang(CallG.beta, 0)
    /\ call.log[j - 1].op = "penup"
    /\ call.log[j].len = CallG.s
    /\ ~call.log[j].pen
    /\ call.log[j + 1].op = "pendown"
    /\ call.log[j + 2].op = "rotate"
    /\ call.log[j + 2].ang = Ang(CallG.beta, 0)

\* C7 (as stated): star(250, 6, step=2) makes exactly 2 pen-lifted jumps of
\* length s at stellation seams of the trace loop.
C7_TwoJumps ==
    Hexagram => (Cardinality(JumpAt) = 2 /\ \A j \in JumpAt : Seam(j))

\* C7 (amended): star(250, 6, step=2) makes exactly 1 (= d - 1) pen-lifted
\* jump of length s at a stellation seam of the trace loop; it joins
\* vertex 0 to vertex 1.
C7_OneJump ==
    Hexagram =>
        /\ Cardinality(JumpAt) = 1
        /\ CallG.s = MkLen(2 * 250, pi \div 6, pi \div 2)
        /\ \A j \in JumpAt :
               /\ Seam(j)
               /\ PosBefore(j) = VertexPos(0)
               /\ call.log[j].pos = VertexPos(1)

C7_Witness ==
    /\ Hexagram
    /\ call.pre.pen
    /\ JumpAt # {}

\* C8: with edgelen = u and no step, the call fails with the edge error
\* when u < s/2, s = 2 r sin(alpha/2), and returns without any error when
\* u >= s/2, for either sign of the radius.
C8_HullBound ==
    (Called /\ IsNone(call.step) /\ ~IsNone(call.edgelen)) =>
        LET half == call.radius * SinPiOverE6(call.vertices)
            u == Val(call.edgelen) * 1000000
        IN /\ u < half => call.raised = "TurtleGraphicsError"
           /\ u >= half => call.raised = "none"

\* the commands of a log: what was called, with which angle (modulo a full
\* turn) and which length
Cmds(log) ==
    [j \in DOMAIN log |->
        [op |-> log[j].op, ang |-> ANorm(log[j].ang), len |-> log[j].len]]
\* the same commands with every rotation negated
Mirror(cmds) ==
    [j \in DOMAIN cmds |->
        IF cmds[j].op = "rotate"
        THEN [cmds[j] EXCEPT !.ang = ANorm(ANeg(cmds[j].ang))]
        ELSE cmds[j]]

InvertedCase ==
    /\ Returned
    /\ ~IsNone(call.step)
    /\ IsNone(call.edgelen)
    /\ Val(call.step) < 0
    /\ 2 * (-Val(call.step)) > call.vertices

Mirrored ==
    Cmds(call.log) =
        Mirror(Cmds(star(call.pre, call.preUndo, call.radius, call.vertices,
                         Some(-(call.vertices + Val(call.step))), None).log))
SameAsNegatedRadius ==
    Cmds(call.log) =
        Cmds(star(call.pre, call.preUndo, -call.radius, call.vertices,
                  Some(-(call.vertices + Val(call.step))), None).log)

\* C9 (as stated): for n/2 < m <= n-1, star(r, n, -m) emits the commands of
\* star(r, n, -(n-m)) with every rotation negated modulo a full turn and
\* the same forward lengths, which are also the commands of
\* star(-r, n, -(n-m)).
C9_Inversion ==
    InvertedCase => (Mirrored /\ SameAsNegatedRadius)

\* C9 (amended): the same for a radius other than 0; for radius 0 the
\* commands are those of star(-r, n, -(n-m)), which are those of
\* star(r, n, -(n-m)) with no rotation negated.
C9_InversionNonZero ==
    InvertedCase =>
        /\ SameAsNegatedRadius
        /\ call.radius # 0 => Mirrored

C9_Witness ==
    /\ InvertedCase
    /\ call.radius > 0
    /\ call.vertices = 5
    /\ call.step = Some(-3)
    /\ Moved

====
